---- MODULE Spec2Model ----
(***************************************************************************)
(* hi-messenger: the authenticated, encrypting chat server of src/main.py. *)
(* The model follows the code at the granularity of its awaits: a          *)
(* connection handler is a process whose position (pc) is one of the       *)
(* awaits of websocket_endpoint, the registry is the dict of               *)
(* ConnectionManager, the store is the users and messages tables, and each *)
(* REST endpoint is one action that records its request and response.      *)
(***************************************************************************)
EXTENDS Integers, Sequences, FiniteSets, TLC

VARIABLES
    dbAvailable,  \* DB_AVAILABLE, fixed when the module is imported
    users,        \* the users table: a set of rows
    messages,     \* the messages table: a sequence of rows in insertion order
    now,          \* the store's clock, read by datetime.utcnow()
    registry,     \* manager.active_connections: the dict's entry array
    pc,           \* pc[s]: where the handler of socket s is
    tr,           \* tr[s]: the transport of socket s
    closeCode,    \* closeCode[s]: the code the handler closed socket s with
    sess,         \* sess[s]: the token presented, user_id and username from it
    cur,          \* cur[s]: the frame the handler of s is working on
    bc,           \* bc[s]: the broadcast the handler of s is suspended in
    inbox,        \* inbox[s]: the frames the client of s has been sent
    nframes,      \* inbound frames read so far
    http          \* the last REST request and its response

vars == <<dbAvailable, users, messages, now, registry, pc, tr, closeCode,
          sess, cur, bc, inbox, nframes, http>>

wsVars == <<registry, pc, tr, closeCode, sess, cur, bc, inbox, nframes>>

storeVars == <<dbAvailable, users, messages, now>>

(***************************************************************************)
(* Bounds.                                                                 *)
(***************************************************************************)
MaxSockets == 2
MaxFrames == 2

\* the sockets of a run, numbered in the order in which they connect
Socks == DOMAIN pc

(***************************************************************************)
(* Program constants.                                                      *)
(***************************************************************************)
MinUsernameLen == 3
MinPasswordLen == 6
WS_1008_POLICY_VIOLATION == 1008
DefaultLimit == 100

(***************************************************************************)
(* Python strings that the code measures or trims are sequences of         *)
(* characters; str.strip() and str.lower() are computed on them.           *)
(***************************************************************************)
IsSpace(c) == c = " "

RECURSIVE LStrip(_)
LStrip(s) == IF s # <<>> /\ IsSpace(Head(s)) THEN LStrip(Tail(s)) ELSE s

RECURSIVE RStrip(_)
RStrip(s) ==
    IF s # <<>> /\ IsSpace(s[Len(s)]) THEN RStrip(SubSeq(s, 1, Len(s) - 1)) ELSE s

Strip(s) == RStrip(LStrip(s))

LowerChar(c) == IF c = "A" THEN "a" ELSE c

Lower(s) == [i \in 1..Len(s) |-> LowerChar(s[i])]

S_alice == <<"a", "l", "i", "c", "e">>
S_bob == <<"b", "o", "b">>
S_carol == <<"c", "a", "r", "o", "l">>
S_secret1 == <<"s", "e", "c", "r", "e", "t", "1">>
S_hunter2 == <<"h", "u", "n", "t", "e", "r", "2">>

(***************************************************************************)
(* str(user_id) and int(sub).                                              *)
(***************************************************************************)
UserIds == {1, 2}

StrOfInt(n) == IF n = 1 THEN "1" ELSE IF n = 2 THEN "2" ELSE "3"

IntOfStr(d) == IF d = "1" THEN 1 ELSE IF d = "2" THEN 2 ELSE 3

(***************************************************************************)
(* Field encryption (Fernet): a token carries a random IV, so two          *)
(* encryptions of one plaintext differ (each call is given an IV no other  *)
(* call has); decryption of anything that is not a token of this key       *)
(* raises.                                                                 *)
(***************************************************************************)
encrypt_data(data, iv) == [fernet |-> TRUE, iv |-> iv, pt |-> data]

decrypt_data(encrypted_data) ==
    IF encrypted_data.fernet
    THEN [raised |-> FALSE, value |-> encrypted_data.pt]
    ELSE [raised |-> TRUE, value |-> ""]

(***************************************************************************)
(* Passwords (bcrypt through passlib): salted, verified by recomputation.  *)
(***************************************************************************)
get_password_hash(password, salt) == [bcrypt |-> salt, of |-> password]

verify_password(plain_password, hashed_password) == hashed_password.of = plain_password

(***************************************************************************)
(* Tokens.  A token is what a client presents: well-formed or not, signed  *)
(* with SECRET_KEY or not, expired or not, with the payload it carries.    *)
(* NoneValue is Python's None (a missing payload field).                   *)
(***************************************************************************)
NoneValue == "<None>"

Payload(user_id, username, type) ==
    [sub |-> StrOfInt(user_id), username |-> username, type |-> type]

create_access_token(user_id, username) ==
    [form |-> "jwt", sig |-> "ok", exp |-> "live",
     payload |-> Payload(user_id, username, "access")]

\* whether the environment variable JWT_SECRET is set
JwtSecretSettings == BOOLEAN

\* auth.py's create_access_token: no "type" field, and signed with auth.py's
\* SECRET_KEY.  That is main.py's SECRET_KEY where JWT_SECRET is set; where
\* it is not, the two modules fall back to different defaults and the
\* signature does not verify in main.py.  sig says whether main.py's
\* jwt.decode accepts the signature.
auth_create_access_token(user_id, username, jwt_secret) ==
    [form |-> "jwt", sig |-> IF jwt_secret THEN "ok" ELSE "bad", exp |-> "live",
     payload |-> Payload(user_id, username, NoneValue)]

verify_token(token) ==
    IF token.form = "jwt" /\ token.sig = "ok" /\ token.exp = "live"
    THEN [none |-> FALSE, payload |-> token.payload]
    ELSE [none |-> TRUE, payload |-> Payload(1, <<>>, NoneValue)]

\* a check that looks at the signature and expiry only
TokenRejectedIgnoringType(token) == verify_token(token).none

\* "not payload or payload.get('type') != 'access'"
TokenRejected(token) ==
    LET p == verify_token(token)
    IN  p.none \/ p.payload.type # "access"

AccessTokens == {create_access_token(1, S_alice), create_access_token(2, S_bob)}

Tokens ==
    AccessTokens \cup
    { auth_create_access_token(1, S_alice, jwt_secret) :
        jwt_secret \in JwtSecretSettings } \cup
    { [create_access_token(1, S_alice) EXCEPT !.sig = "bad"],
      [create_access_token(2, S_bob) EXCEPT !.exp = "expired"] }

NoToken == [create_access_token(1, <<>>) EXCEPT !.form = "none"]

(***************************************************************************)
(* The module binds the name datetime twice: "import datetime" (line 9)    *)
(* and then "from datetime import datetime, timedelta" (line 128).  From   *)
(* then on the global datetime is the class, and the expression            *)
(* datetime.datetime.utcnow() raises AttributeError wherever a handler     *)
(* evaluates it.                                                           *)
(***************************************************************************)
DatetimeIsModule == FALSE

UtcNowRaises == ~DatetimeIsModule

(***************************************************************************)
(* models.User declares id, username, password_hash, created_at and        *)
(* last_seen: it has no email attribute, so the expression User.email      *)
(* raises AttributeError.                                                  *)
(***************************************************************************)
UserColumns == {"id", "username", "password_hash", "created_at", "last_seen"}

UserEmailRaises == "email" \notin UserColumns

(***************************************************************************)
(* The store a process is started on.  The tables outlive the process      *)
(* (create_all only adds missing tables), so a run starts on any of a few  *)
(* stores that hold rows of the declared shape.                            *)
(***************************************************************************)
Row_alice ==
    [id |-> 1, username |-> S_alice, password_hash |-> get_password_hash(S_secret1, 1),
     created_at |-> 1, last_seen |-> 1]

Row_bob ==
    [id |-> 2, username |-> S_bob, password_hash |-> get_password_hash(S_hunter2, 2),
     created_at |-> 2, last_seen |-> 2]


Msg_old1 == [id |-> 1, text |-> encrypt_data("old1", 1), timestamp |-> 3, sender_id |-> 1]

\* written before encryption was introduced: plaintext at rest
Msg_old2 == [id |-> 2, text |-> [fernet |-> FALSE, iv |-> 0, pt |-> "old2"],
             timestamp |-> 4, sender_id |-> 1]

\* DB_AVAILABLE is False when the database modules cannot be imported
NoDatabase == [db |-> FALSE, users |-> {}, messages |-> <<>>]

Stores ==
    { NoDatabase,
      [db |-> TRUE, users |-> {}, messages |-> <<>>],
      [db |-> TRUE, users |-> {Row_alice}, messages |-> <<Msg_old1, Msg_old2>>] }

StartClock == Msg_old2.timestamp + 1

UserById(us, user_id) == {u \in us : u.id = user_id}

UserByName(us, username) == {u \in us : u.username = username}

(***************************************************************************)
(* ConnectionManager.active_connections, a CPython dict: an array of       *)
(* entries in insertion order in which a deleted entry leaves a hole.  A   *)
(* values() iterator holds its position in the array, the dict's size when *)
(* it was made and the number of values it may still give; next() raises   *)
(* RuntimeError when the size differs or when it finds more than that.     *)
(***************************************************************************)
Hole == [key |-> 0, val |-> 0]

LiveIdx(reg) == {i \in 1..Len(reg) : reg[i].key # 0}

DictLen(reg) == Cardinality(LiveIdx(reg))

DictHas(reg, user_id) == \E i \in LiveIdx(reg) : reg[i].key = user_id

DictValues(reg) == {reg[i].val : i \in LiveIdx(reg)}

DictSet(reg, user_id, websocket) ==
    IF DictHas(reg, user_id)
    THEN [i \in 1..Len(reg) |->
            IF reg[i].key = user_id THEN [key |-> user_id, val |-> websocket] ELSE reg[i]]
    ELSE Append(reg, [key |-> user_id, val |-> websocket])

DictDel(reg, user_id) ==
    [i \in 1..Len(reg) |-> IF reg[i].key = user_id THEN Hole ELSE reg[i]]

NewIter(reg) == [pos |-> 0, used |-> DictLen(reg), len |-> DictLen(reg)]

MinOf(S) == CHOOSE x \in S : \A y \in S : x <= y

IterNext(it, reg) ==
    LET rest == {i \in LiveIdx(reg) : i > it.pos}
    IN  IF it.used # DictLen(reg)
        THEN [kind |-> "error", val |-> 0, it |-> it]
        ELSE IF rest = {}
        THEN [kind |-> "stop", val |-> 0, it |-> it]
        ELSE IF it.len = 0
        THEN [kind |-> "error", val |-> 0, it |-> it]
        ELSE [kind |-> "value", val |-> reg[MinOf(rest)].val,
              it |-> [pos |-> MinOf(rest), used |-> it.used, len |-> it.len - 1]]

\* ConnectionManager.disconnect
disconnect(reg, user_id) == IF DictHas(reg, user_id) THEN DictDel(reg, user_id) ELSE reg

(***************************************************************************)
(* Frames.  An inbound frame is the text a client sends: json.loads gives  *)
(* an object, or another JSON value, or raises; the object's "text" is a   *)
(* string, absent, or a value of another type.                             *)
(***************************************************************************)
JStr(v) == [t |-> "str", v |-> v]

JAbsent == [t |-> "absent", v |-> ""]

JNumber == [t |-> "num", v |-> ""]

InFrames ==
    { [json |-> "object", text |-> JStr("hi")],
      [json |-> "object", text |-> JAbsent],
      [json |-> "object", text |-> JNumber],
      [json |-> "invalid", text |-> JAbsent] }

\* message_data.get("text", "")
TextOf(f) == IF f.text.t = "absent" THEN "" ELSE f.text.v

\* json.loads(data), message_data.get and encrypt_data(...) all return
FrameParses(f) == f.json = "object" /\ f.text.t \in {"str", "absent"}

MessageFrame(user_id, username, text, timestamp, message_id) ==
    [type |-> "message", from |-> user_id, from_username |-> username,
     text |-> text, timestamp |-> timestamp, message_id |-> message_id]

ErrorFrame(message) == [type |-> "error", message |-> message]

DisconnectFrame(user_id, username) ==
    [type |-> "user_disconnected", user_id |-> user_id, username |-> username]

ErrUserNotFound == ErrorFrame("User not found")

ErrSaving == ErrorFrame("Error saving message")

NoFrame == [type |-> "none"]

NoBc == [it |-> [pos |-> 0, used |-> 0, len |-> 0], frame |-> NoFrame, after |-> "none"]

NoSess == [token |-> NoToken, user_id |-> 0, username |-> <<>>]

NoCur == [text |-> "", encrypted_text |-> encrypt_data("", 0), store_raises |-> FALSE]

(***************************************************************************)
(* send_text on a socket.  On an open transport the frame is delivered.    *)
(* On a closed one the outcome depends on the installed ASGI server and    *)
(* framework: the frame is dropped silently, or WebSocketDisconnect is     *)
(* raised, or another exception (RuntimeError) is.                         *)
(***************************************************************************)
SendOutcomes(transport) ==
    IF transport = "open" THEN {"ok"} ELSE {"dropped", "disconnect", "error"}

(***************************************************************************)
(* What a handler step leaves behind: the handler's own position,          *)
(* transport and pending broadcast, and the shared state.                  *)
(***************************************************************************)
St == [registry |-> registry, inbox |-> inbox, messages |-> messages, now |-> now]

Out(st, pcS, trS, bcS) ==
    [pcS |-> pcS, trS |-> trS, bcS |-> bcS, registry |-> st.registry,
     inbox |-> st.inbox, messages |-> st.messages, now |-> st.now]

\* An exception leaves websocket_endpoint: the server closes the socket; the
\* registry is not touched.
Crash(st) == {Out(st, "crashed", "closed", NoBc)}

(***************************************************************************)
(* ConnectionManager.broadcast, from one next() of the values() iterator   *)
(* through the send_text it leads to, where the task is suspended.         *)
(* `after` says where the broadcast was called: "disc" in the              *)
(* WebSocketDisconnect handler, "msg" inside the try of the database       *)
(* block, "nodb" in the branch for a missing database.  onDisc and onErr   *)
(* are what follows a WebSocketDisconnect or another exception raised      *)
(* here.                                                                   *)
(***************************************************************************)
broadcast(s, trS, st, frame, it, after, onDisc, onErr) ==
    LET n == IterNext(it, st.registry)
        b == [it |-> n.it, frame |-> frame, after |-> after]
        target == IF n.val = s THEN trS ELSE tr[n.val]
    IN  IF n.kind = "stop"
        THEN {Out(st, IF after = "disc" THEN "done" ELSE "recv", trS, NoBc)}
        ELSE IF n.kind = "error"
        THEN onErr
        ELSE UNION { IF o = "ok"
                     THEN {Out([st EXCEPT !.inbox[n.val] = Append(@, frame)],
                               "bcast", trS, b)}
                     ELSE IF o = "dropped"
                     THEN {Out(st, "bcast", trS, b)}
                     ELSE IF o = "disconnect" THEN onDisc ELSE onErr
                   : o \in SendOutcomes(target) }

\* except WebSocketDisconnect: disconnect, then broadcast user_disconnected.
\* An exception raised here leaves the endpoint.
DisconnectPath(s, st) ==
    LET st1 == [st EXCEPT !.registry = disconnect(@, sess[s].user_id)]
    IN  broadcast(s, "closed", st1,
                  DisconnectFrame(sess[s].user_id, sess[s].username),
                  NewIter(st1.registry), "disc", Crash(st1), Crash(st1))

\* await websocket.send_text(frame) to the handler's own socket, after which
\* the loop goes back to receive_text.  A WebSocketDisconnect raised by it
\* reaches the outer except clause, any other exception leaves the endpoint.
OwnSend(s, trS, st, frame) ==
    UNION { IF o = "ok"
            THEN {Out([st EXCEPT !.inbox[s] = Append(@, frame)], "recv", trS, NoBc)}
            ELSE IF o = "dropped"
            THEN {Out(st, "recv", trS, NoBc)}
            ELSE IF o = "disconnect" THEN DisconnectPath(s, st) ELSE Crash(st)
          : o \in SendOutcomes(trS) }

\* active_connections[user_id]
DictGet(reg, user_id) == reg[CHOOSE i \in LiveIdx(reg) : reg[i].key = user_id].val

\* ConnectionManager.send_personal_message: the frame goes to the socket in
\* the entry of user_id, if there is one; an exception of send_text goes to
\* the caller.  No endpoint calls it: it is applied in SpecManager only,
\* where the manager's methods are called from outside the endpoints.
send_personal_message(st, message, user_id) ==
    IF ~DictHas(st.registry, user_id)
    THEN {[raised |-> "none", inbox |-> st.inbox]}
    ELSE { [raised |-> IF o \in {"ok", "dropped"} THEN "none" ELSE o,
            inbox |-> IF o = "ok"
                      THEN [st.inbox EXCEPT ![DictGet(st.registry, user_id)] =
                                               Append(@, message)]
                      ELSE st.inbox]
         : o \in SendOutcomes(tr[DictGet(st.registry, user_id)]) }

\* a handler that lets the exception leave the endpoint
SavingErrorLeaves(s, trS, st) == Crash(st)

\* a handler that tells every connection about the missing user
UserNotFoundToAll(s, trS, st) ==
    UNION { {Out([o EXCEPT !.inbox = [r \in DOMAIN @ |->
                                         IF r # s /\ DictHas(st.registry, sess[r].user_id)
                                         THEN Append(@[r], ErrUserNotFound) ELSE @[r]]],
                 o.pcS, o.trS, o.bcS)}
          : o \in OwnSend(s, trS, st, ErrUserNotFound) }

\* except Exception (database block): the error frame goes to the sender
SavingError(s, trS, st) == OwnSend(s, trS, st, ErrSaving)

\* if not user: the error frame goes to the sender, then continue
UserNotFound(s, trS, st) == OwnSend(s, trS, st, ErrUserNotFound)

OnDisc(s, trS, st, after) ==
    IF after = "disc" THEN Crash(st)
    ELSE IF after = "msg" THEN SavingError(s, trS, st)
    ELSE DisconnectPath(s, st)

OnErr(s, trS, st, after) ==
    IF after = "msg" THEN SavingError(s, trS, st) ELSE Crash(st)

StartBroadcast(s, trS, st, frame, after) ==
    broadcast(s, trS, st, frame, NewIter(st.registry), after,
              OnDisc(s, trS, st, after), OnErr(s, trS, st, after))

NextMessageId(msgs) ==
    IF msgs = <<>> THEN 1
    ELSE 1 + CHOOSE m \in {msgs[i].id : i \in 1..Len(msgs)} :
                \A j \in 1..Len(msgs) : msgs[j].id <= m

\* lines 383-400: Message(text=encrypted_text, sender_id=user_id,
\* timestamp=utcnow()), add, commit.  The row is in the table and the handler
\* is suspended in "await db.commit()" / "await db.refresh(new_message)",
\* holding the frame it will broadcast; the broadcast has not begun and has
\* not read the registry yet.
PersistAndBroadcast(s, trS, st, user) ==
    LET row == [id |-> NextMessageId(st.messages), text |-> cur[s].encrypted_text,
                timestamp |-> st.now, sender_id |-> sess[s].user_id]
        st1 == [st EXCEPT !.messages = Append(@, row), !.now = @ + 1]
    IN  {Out(st1, "committed", trS,
             [NoBc EXCEPT !.frame = MessageFrame(sess[s].user_id, user.username,
                                                 cur[s].text, row.timestamp, row.id),
                          !.after = "msg"])}

Apply(s, o) ==
    /\ pc' = [pc EXCEPT ![s] = o.pcS]
    /\ tr' = [tr EXCEPT ![s] = o.trS]
    /\ bc' = [bc EXCEPT ![s] = o.bcS]
    /\ registry' = o.registry
    /\ inbox' = o.inbox
    /\ messages' = o.messages
    /\ now' = o.now

(***************************************************************************)
(* websocket_endpoint.                                                     *)
(***************************************************************************)
NoHttp == [op |-> "none", req |-> <<>>, resp |-> <<>>]

InitWith(stores, sockets) ==
    /\ \E store \in stores :
          /\ dbAvailable = store.db
          /\ users = store.users
          /\ messages = store.messages
    /\ now = StartClock
    /\ registry = <<>>
    /\ pc = [s \in 1..sockets |-> "new"]
    /\ tr = [s \in 1..sockets |-> "connecting"]
    /\ closeCode = [s \in 1..sockets |-> 0]
    /\ sess = [s \in 1..sockets |-> NoSess]
    /\ cur = [s \in 1..sockets |-> NoCur]
    /\ bc = [s \in 1..sockets |-> NoBc]
    /\ inbox = [s \in 1..sockets |-> <<>>]
    /\ nframes = 0
    /\ http = NoHttp

InitOn(stores) == InitWith(stores, MaxSockets)

\* lines 331-341: the token check, then manager.connect
Connect(s, token) ==
    /\ pc[s] = "new"
    /\ \A r \in Socks : r < s => pc[r] # "new"
    /\ IF TokenRejected(token)
       THEN /\ pc' = [pc EXCEPT ![s] = "rejected"]
            /\ tr' = [tr EXCEPT ![s] = "closed"]
            /\ closeCode' = [closeCode EXCEPT ![s] = WS_1008_POLICY_VIOLATION]
            /\ sess' = [sess EXCEPT ![s] = [NoSess EXCEPT !.token = token]]
            /\ UNCHANGED registry
       ELSE /\ pc' = [pc EXCEPT ![s] = "recv"]
            /\ tr' = [tr EXCEPT ![s] = "open"]
            /\ sess' = [sess EXCEPT ![s] =
                          [token |-> token,
                           user_id |-> IntOfStr(verify_token(token).payload.sub),
                           username |-> verify_token(token).payload.username]]
            /\ registry' = DictSet(registry, IntOfStr(verify_token(token).payload.sub), s)
            /\ UNCHANGED closeCode
    /\ UNCHANGED <<storeVars, cur, bc, inbox, nframes, http>>

\* line 346: the handler is suspended in "await websocket.receive_text()"
AtReceive(s) == pc[s] = "recv"

\* lines 346-372: a frame is read, parsed and encrypted; without a database
\* the broadcast frame is built at once, with one the user lookup is awaited.
\* store_raises: whether the database calls made for this frame will raise
\* (the store is unreachable).  receive_text hands over the next frame the
\* server holds for the handler whatever the transport is by then: a frame
\* the client sent before it closed is read and handled after the close, and
\* the disconnect is observed only once those frames are read.
ReceiveFrame(s, f, store_raises) ==
    /\ AtReceive(s)
    /\ nframes < MaxFrames
    /\ nframes' = nframes + 1
    /\ IF ~FrameParses(f)
       THEN /\ \E o \in Crash(St) : Apply(s, o)
            /\ UNCHANGED cur
       ELSE IF ~dbAvailable
       THEN /\ \E o \in (IF UtcNowRaises
                         THEN Crash(St)
                         ELSE StartBroadcast(s, tr[s], St,
                                  MessageFrame(sess[s].user_id, sess[s].username,
                                               TextOf(f), now, now), "nodb")) :
                  Apply(s, o)
            /\ UNCHANGED cur
       ELSE /\ pc' = [pc EXCEPT ![s] = "lookup"]
            /\ cur' = [cur EXCEPT ![s] =
                         [text |-> TextOf(f),
                          encrypted_text |-> encrypt_data(TextOf(f), nframes'),
                          store_raises |-> store_raises]]
            /\ UNCHANGED <<tr, bc, registry, inbox, messages, now>>
    /\ UNCHANGED <<dbAvailable, users, closeCode, sess, http>>

LookupCause(s) ==
    IF cur[s].store_raises THEN "store_error"
    ELSE IF UserById(users, sess[s].user_id) = {} THEN "not_found"
    ELSE IF UtcNowRaises THEN "utcnow_error"
    ELSE "persisted"

\* lines 372-409: the lookup returns (or the store raises), and the frame is
\* handled up to the next await the handler is suspended in
LookupResume(s) ==
    /\ pc[s] = "lookup"
    /\ LET cause == LookupCause(s)
           outs == IF cause = "not_found" THEN UserNotFound(s, tr[s], St)
                   ELSE IF cause = "persisted"
                   THEN PersistAndBroadcast(s, tr[s], St,
                            CHOOSE u \in UserById(users, sess[s].user_id) : TRUE)
                   ELSE SavingError(s, tr[s], St)
       IN  \E o \in outs : Apply(s, o)
    /\ cur' = [cur EXCEPT ![s] = NoCur]
    /\ UNCHANGED <<dbAvailable, users, closeCode, sess, nframes, http>>

\* the peer closes the transport
PeerClose(s) ==
    /\ tr[s] = "open"
    /\ pc[s] \in {"recv", "lookup", "committed", "bcast"}
    /\ tr' = [tr EXCEPT ![s] = "closed"]
    /\ UNCHANGED <<storeVars, registry, pc, closeCode, sess, cur, bc, inbox, nframes, http>>

\* lines 346 and 411-418: receive_text raises WebSocketDisconnect
ObserveClose(s) ==
    /\ pc[s] = "recv"
    /\ tr[s] = "closed"
    /\ \E o \in DisconnectPath(s, St) : Apply(s, o)
    /\ UNCHANGED <<dbAvailable, users, closeCode, sess, cur, nframes, http>>

\* lines 119-121 and 390-402: a suspended broadcast resumes with its next
\* next(); or refresh returns and manager.broadcast is entered, making its
\* values() iterator over the registry as it is now
BroadcastStep(s) ==
    /\ pc[s] \in {"committed", "bcast"}
    /\ \E o \in broadcast(s, tr[s], St, bc[s].frame,
                          IF pc[s] = "committed" THEN NewIter(registry) ELSE bc[s].it,
                          bc[s].after,
                          OnDisc(s, tr[s], St, bc[s].after),
                          OnErr(s, tr[s], St, bc[s].after)) :
          Apply(s, o)
    /\ UNCHANGED <<dbAvailable, users, closeCode, sess, cur, nframes, http>>

(***************************************************************************)
(* REST.  A request body is what request.json() gives: a JSON object whose *)
(* fields are strings, absent, or of another type (null, a number), or a   *)
(* body that is no JSON object (json() or .get raises).  Each handler is a *)
(* function of the request, the store and the registry; store_raises says  *)
(* whether the database calls made for the request raise.                  *)
(***************************************************************************)
Absent == [t |-> "absent", v |-> <<>>]

Null == [t |-> "null", v |-> <<>>]

Str(v) == [t |-> "str", v |-> v]

\* data.get(key, "")
Get(field) == IF field.t = "absent" THEN Str(<<>>) ELSE field

UsernameInputs ==
    {Absent, Null, Str(<<" ", " ">>), Str(<<"a", "b">>), Str(S_alice), Str(S_carol)}

PasswordInputs ==
    {Absent, Null, Str(<<" ">>), Str(<<"1", "2", "3", "4", "5">>), Str(S_secret1),
     Str(S_hunter2)}

EmailInputs == {Absent, Null, Str(<<"A", "@", "x">>)}

NotJson == [json |-> "invalid", username |-> Absent, password |-> Absent, email |-> Absent]

Body(username, password, email) ==
    [json |-> "object", username |-> username, password |-> password, email |-> email]

LoginBodies ==
    {NotJson} \cup {Body(u, p, Absent) : u \in UsernameInputs, p \in PasswordInputs}

Bodies ==
    LoginBodies \cup
    {Body(u, p, e) : u \in {Str(<<"a", "b">>), Str(S_carol)},
                     p \in {Str(<<"1", "2", "3", "4", "5">>), Str(S_secret1)},
                     e \in EmailInputs}

ProfileBodies ==
    {NotJson} \cup {Body(u, Absent, Absent) : u \in UsernameInputs}
    \cup {Body(Str(S_carol), Absent, e) : e \in EmailInputs}

Limits == {0, 1, 2, DefaultLimit}

\* The Authorization header of a request: "Bearer <token>", a header of
\* another scheme ("Basic abc"), or none
Bearer(token) == [present |-> TRUE, scheme |-> "Bearer", token |-> token]

NoHeader == [present |-> FALSE, scheme |-> "", token |-> NoToken]

BasicHeader == [present |-> TRUE, scheme |-> "Basic", token |-> NoToken]

Credentials == {Bearer(k) : k \in Tokens} \cup {NoHeader, BasicHeader}

Response(status, detail, body) == [status |-> status, detail |-> detail, body |-> body]

R500 == Response(500, "Internal server error", <<>>)

R400(detail) == Response(400, detail, <<>>)

R401(detail) == Response(401, detail, <<>>)

\* what a handler gives: its response and the tables it leaves
Result(resp, us, clk) == [resp |-> resp, users |-> us, now |-> clk]

(***************************************************************************)
(* security = HTTPBearer(), auto_error left on.  Without an Authorization  *)
(* header the dependency itself answers "Not authenticated"; with a header *)
(* of another scheme than Bearer it answers "Invalid authentication        *)
(* credentials".  Both are 403 in FastAPI releases before 0.122; from      *)
(* 0.122 on both are 401 "Not authenticated".  The repository pins no      *)
(* release.  get_current_user answers 401 for a token that does not verify *)
(* or is not of type "access".                                             *)
(***************************************************************************)
security(credentials) ==
    IF ~credentials.present
    THEN {[ok |-> FALSE, resp |-> Response(st, "Not authenticated", <<>>)] :
            st \in {401, 403}}
    ELSE IF credentials.scheme # "Bearer"
    THEN {[ok |-> FALSE, resp |-> Response(403, "Invalid authentication credentials", <<>>)],
          [ok |-> FALSE, resp |-> Response(401, "Not authenticated", <<>>)]}
    ELSE {[ok |-> TRUE, resp |-> Response(200, "", <<>>)]}

get_current_user(credentials) ==
    { IF ~a.ok
      THEN [ok |-> FALSE, resp |-> a.resp, user |-> [id |-> 0, username |-> <<>>]]
      ELSE IF TokenRejected(credentials.token)
      THEN [ok |-> FALSE, resp |-> R401("Invalid or expired token"),
            user |-> [id |-> 0, username |-> <<>>]]
      ELSE [ok |-> TRUE, resp |-> Response(200, "", <<>>),
            user |-> [id |-> IntOfStr(verify_token(credentials.token).payload.sub),
                      username |-> verify_token(credentials.token).payload.username]]
    : a \in security(credentials) }

EmailOf(u) == IF "email" \in DOMAIN u THEN u.email ELSE [fernet |-> FALSE, iv |-> 0, pt |-> <<>>]

NextUserId(us) ==
    IF us = {} THEN 1 ELSE 1 + CHOOSE m \in {u.id : u \in us} : \A u \in us : u.id <= m

\* every field the handler strips is a string
FieldsAreStrings(data, fields) ==
    /\ data.json = "object"
    /\ \A k \in fields : Get(data[k]).t = "str"

\* a validation that only looks at presence
RegistrationErrorPresenceOnly(username, password) ==
    IF username = <<>> \/ password = <<>>
    THEN "Username and password are required"
    ELSE NoneValue

\* lines 198-214: the detail of the 400 raised for the stripped username and
\* password, NoneValue when they pass
RegistrationError(username, password) ==
    IF username = <<>> \/ password = <<>>
    THEN "Username and password are required"
    ELSE IF Len(username) < MinUsernameLen
    THEN "Username must be at least 3 characters long"
    ELSE IF Len(password) < MinPasswordLen
    THEN "Password must be at least 6 characters long"
    ELSE NoneValue

\* POST /api/auth/register
register_user(data, store_raises, us, clk) ==
    IF ~FieldsAreStrings(data, {"username", "password", "email"})
    THEN Result(R500, us, clk)
    ELSE
    LET username == Strip(Get(data.username).v)
        password == Strip(Get(data.password).v)
        email == Lower(Strip(Get(data.email).v))
        existing == {u \in us : u.username = username
                                  \/ EmailOf(u) = [fernet |-> FALSE, iv |-> 0, pt |-> email]}
        new_user == [id |-> NextUserId(us), username |-> username,
                     password_hash |-> get_password_hash(password, clk),
                     email |-> IF email = <<>> THEN NoneValue ELSE encrypt_data(email, clk),
                     created_at |-> clk, last_seen |-> clk]
    IN  IF RegistrationError(username, password) # NoneValue
        THEN Result(R400(RegistrationError(username, password)), us, clk)
        ELSE IF ~dbAvailable \/ UserEmailRaises \/ store_raises
        THEN Result(R500, us, clk)
        ELSE IF Cardinality(existing) > 1
        THEN Result(R500, us, clk)
        ELSE IF existing # {}
        THEN Result(R400("User already exists"), us, clk)
        ELSE IF UtcNowRaises
        THEN Result(R500, us, clk)
        ELSE Result(Response(201, "User created successfully",
                             [user_id |-> new_user.id, username |-> username,
                              access_token |-> create_access_token(new_user.id, username),
                              token_type |-> "bearer"]),
                    us \cup {new_user}, clk + 1)

\* a check that turns away unknown usernames only
CredentialsRejectedUnknownOnly(found, password) == found = {}

\* line 292: "not user or not verify_password(password, user.password_hash)"
CredentialsRejected(found, password) ==
    \/ found = {}
    \/ ~verify_password(password, (CHOOSE u \in found : TRUE).password_hash)

\* POST /api/auth/login
login_user(data, store_raises, us, clk) ==
    IF ~FieldsAreStrings(data, {"username", "password"})
    THEN Result(R500, us, clk)
    ELSE
    LET username == Strip(Get(data.username).v)
        password == Strip(Get(data.password).v)
        found == UserByName(us, username)
        user == CHOOSE u \in found : TRUE
    IN  IF username = <<>> \/ password = <<>>
        THEN Result(R400("Username and password are required"), us, clk)
        ELSE IF ~dbAvailable \/ store_raises \/ Cardinality(found) > 1
        THEN Result(R500, us, clk)
        ELSE IF CredentialsRejected(found, password)
        THEN Result(R401("Invalid credentials"), us, clk)
        ELSE IF UtcNowRaises
        THEN Result(R500, us, clk)
        ELSE Result(Response(200, "Login successful",
                             [user_id |-> user.id, username |-> user.username,
                              access_token |-> create_access_token(user.id, user.username),
                              token_type |-> "bearer"]),
                    (us \ {user}) \cup {[user EXCEPT !.last_seen = clk]}, clk + 1)

RECURSIVE OrderByTimestampDesc(_)
OrderByTimestampDesc(rows) ==
    IF rows = {} THEN <<>>
    ELSE LET m == CHOOSE x \in rows : \A y \in rows : y.timestamp <= x.timestamp
         IN  <<m>> \o OrderByTimestampDesc(rows \ {m})

Take(seq, n) == SubSeq(seq, 1, IF n < Len(seq) THEN n ELSE Len(seq))

Reversed(seq) == [i \in 1..Len(seq) |-> seq[Len(seq) + 1 - i]]

\* the fixed text put in place of a message that does not decrypt (the
\* source's literal is Russian for "could not decrypt the message")
UndecryptableMessage == "<could not decrypt the message>"

\* datetime.isoformat(): text that orders as the instants do
isoformat(timestamp) == [iso |-> timestamp]

\* one entry of the history: the row with its text decrypted, or the placeholder
HistoryEntry(message, us) ==
    [id |-> message.id,
     text |-> IF decrypt_data(message.text).raised
              THEN UndecryptableMessage
              ELSE decrypt_data(message.text).value,
     from |-> message.sender_id,
     from_username |-> (CHOOSE u \in UserById(us, message.sender_id) : TRUE).username,
     timestamp |-> isoformat(message.timestamp)]

\* GET /api/messages
get_messages(limit, store_raises, us, msgs) ==
    IF ~dbAvailable \/ store_raises
    THEN Response(200, "", <<>>)
    ELSE LET joined == {msgs[i] : i \in {j \in 1..Len(msgs) :
                                          UserById(us, msgs[j].sender_id) # {}}}
             newest == Take(OrderByTimestampDesc(joined), limit)
         IN  Response(200, "",
                      Reversed([i \in 1..Len(newest) |-> HistoryEntry(newest[i], us)]))

\* GET /api/user/{user_id}: inside "try ... except Exception", which also
\* catches the HTTPException(404) raised for a missing row
get_user_info(user_id, store_raises, us) ==
    LET found == UserById(us, user_id)
        user == CHOOSE u \in found : TRUE
    IN  IF ~dbAvailable
        THEN Response(200, "", [id |-> user_id, username |-> <<"User_", StrOfInt(user_id)>>,
                                status |-> "offline"])
        ELSE IF store_raises
        THEN R500
        ELSE IF found = {}
        THEN R500
        ELSE IF UserEmailRaises
        THEN R500
        ELSE Response(200, "",
                      [id |-> user.id, username |-> user.username,
                       email |-> EmailOf(user), created_at |-> isoformat(user.created_at),
                       last_seen |-> isoformat(user.last_seen)])

(***************************************************************************)
(* POST /api/user/profile.  The whole body of the handler is inside        *)
(* "try ... except Exception", which turns every HTTPException the body    *)
(* raises (400, 404) into 500.  The handler is suspended in the store      *)
(* twice before it writes: in the lookup of the new username among the     *)
(* other users (line 518) and in the lookup of the caller's own row (line  *)
(* 525).                                                                   *)
(***************************************************************************)
\* lines 503-510: the body is not an object with string fields, or the
\* stripped username is empty or shorter than 3
ProfileBodyRejected(data) ==
    \/ ~FieldsAreStrings(data, {"username", "email"})
    \/ Len(Strip(Get(data.username).v)) < MinUsernameLen

\* lines 518-520: another user's row holds the new username
UsernameTaken(us, new_username, user_id) ==
    {u \in us : u.username = new_username /\ u.id # user_id}

\* lines 529-533: the new username and last_seen are set on the row and
\* committed; the users table holds usernames unique (models.py, line 14), so
\* a commit that would repeat one raises IntegrityError
ProfileCommit(us, user, new_username, clk) ==
    IF UtcNowRaises
    THEN Result(R500, us, clk)
    ELSE IF \E u \in us \ {user} : u.username = new_username
    THEN Result(R500, us, clk)
    ELSE Result(Response(200, "Profile updated successfully",
                         [username |-> new_username,
                          access_token |-> create_access_token(user.id, new_username)]),
                (us \ {user}) \cup
                    {[user EXCEPT !.username = new_username, !.last_seen = clk]},
                clk + 1)

\* GET /connections
get_connections(reg) == Response(200, "", [active_connections |-> DictLen(reg)])

\* GET /api/auth/me
get_current_user_info(current_user) == Response(200, "", current_user)

\* a profile update is suspended in one of its two lookups
Suspended == http.op \in {"profile_taken", "profile_found"}

\* http holds the request last answered, or the profile update that is
\* suspended in the store; while one is suspended the other requests are
\* handled all the same and their answers are not kept
Respond(op, req, resp) ==
    http' = IF Suspended /\ op # "profile"
            THEN http
            ELSE [op |-> op, req |-> req, resp |-> resp]

Register(data, store_raises) ==
    LET r == register_user(data, store_raises, users, now)
    IN  /\ Respond("register", [data |-> data, store_raises |-> store_raises], r.resp)
        /\ users' = r.users
        /\ now' = r.now
        /\ UNCHANGED <<dbAvailable, messages, wsVars>>

Login(data, store_raises) ==
    LET r == login_user(data, store_raises, users, now)
    IN  /\ Respond("login", [data |-> data, store_raises |-> store_raises], r.resp)
        /\ users' = r.users
        /\ now' = r.now
        /\ UNCHANGED <<dbAvailable, messages, wsVars>>

Me(credentials) ==
    /\ \E a \in get_current_user(credentials) :
          Respond("me", [credentials |-> credentials],
                  IF a.ok THEN get_current_user_info(a.user) ELSE a.resp)
    /\ UNCHANGED <<storeVars, wsVars>>

GetMessages(credentials, limit, store_raises) ==
    /\ \E a \in get_current_user(credentials) :
          Respond("messages",
                  [credentials |-> credentials, limit |-> limit,
                   store_raises |-> store_raises],
                  IF a.ok THEN get_messages(limit, store_raises, users, messages)
                  ELSE a.resp)
    /\ UNCHANGED <<storeVars, wsVars>>

GetUserInfo(credentials, user_id, store_raises) ==
    /\ \E a \in get_current_user(credentials) :
          Respond("user",
                  [credentials |-> credentials, user_id |-> user_id,
                   store_raises |-> store_raises],
                  IF a.ok THEN get_user_info(user_id, store_raises, users) ELSE a.resp)
    /\ UNCHANGED <<storeVars, wsVars>>

\* lines 500-518: the caller is authenticated, the body is read and
\* validated, and the first lookup is sent.  One profile update is followed
\* at a time here; SpecRace has two of them in flight.
UpdateProfile(credentials, data, store_raises) ==
    /\ ~Suspended
    /\ \E a \in get_current_user(credentials) :
          LET req == [credentials |-> credentials, data |-> data,
                      store_raises |-> store_raises,
                      current_user |-> a.user]
          IN  IF ~a.ok
              THEN Respond("profile", req, a.resp)
              ELSE IF ProfileBodyRejected(data) \/ ~dbAvailable
              THEN Respond("profile", req, R500)
              ELSE http' = [op |-> "profile_taken", req |-> req, resp |-> <<>>]
    /\ UNCHANGED <<storeVars, wsVars>>

\* lines 518-525: the first lookup returns (or the store raises), and the
\* second is sent
UpdateProfileTaken ==
    /\ http.op = "profile_taken"
    /\ IF \/ http.req.store_raises
          \/ UsernameTaken(users, Strip(Get(http.req.data.username).v),
                           http.req.current_user.id) # {}
       THEN Respond("profile", http.req, R500)
       ELSE http' = [http EXCEPT !.op = "profile_found"]
    /\ UNCHANGED <<storeVars, wsVars>>

\* lines 525-547: the second lookup returns, and the row is written
UpdateProfileFinish ==
    /\ http.op = "profile_found"
    /\ LET found == UserById(users, http.req.current_user.id)
           w == IF found = {}
                THEN Result(R500, users, now)
                ELSE ProfileCommit(users, CHOOSE u \in found : TRUE,
                                   Strip(Get(http.req.data.username).v), now)
       IN  /\ Respond("profile", http.req, w.resp)
           /\ users' = w.users
           /\ now' = w.now
    /\ UNCHANGED <<dbAvailable, messages, wsVars>>

GetConnections(credentials) ==
    /\ \E a \in get_current_user(credentials) :
          Respond("connections", [credentials |-> credentials],
                  IF a.ok THEN get_connections(registry) ELSE a.resp)
    /\ UNCHANGED <<storeVars, wsVars>>

Init == InitOn(Stores)

Next ==
    \/ \E s \in Socks, token \in Tokens : Connect(s, token)
    \/ \E s \in Socks, f \in InFrames, store_raises \in BOOLEAN :
          ReceiveFrame(s, f, store_raises)
    \/ \E s \in Socks : LookupResume(s)
    \/ \E s \in Socks : PeerClose(s)
    \/ \E s \in Socks : ObserveClose(s)
    \/ \E s \in Socks : BroadcastStep(s)

Spec == Init /\ [][Next]_vars

(***************************************************************************)
(* The REST endpoints, with connections being opened beside them.          *)
(***************************************************************************)
InitRest == InitOn(Stores)

NextRest ==
    \/ \E s \in Socks, token \in AccessTokens : Connect(s, token)
    \/ \E data \in Bodies, store_raises \in BOOLEAN : Register(data, store_raises)
    \/ \E data \in LoginBodies, store_raises \in BOOLEAN : Login(data, store_raises)
    \/ \E credentials \in Credentials : Me(credentials)
    \/ \E credentials \in Credentials, limit \in Limits, store_raises \in BOOLEAN :
          GetMessages(credentials, limit, store_raises)
    \/ \E credentials \in Credentials, user_id \in UserIds \cup {3},
          store_raises \in BOOLEAN :
          GetUserInfo(credentials, user_id, store_raises)
    \/ \E credentials \in Credentials, data \in ProfileBodies, store_raises \in BOOLEAN :
          UpdateProfile(credentials, data, store_raises)
    \/ UpdateProfileTaken
    \/ UpdateProfileFinish
    \/ \E credentials \in Credentials : GetConnections(credentials)

SpecRest == InitRest /\ [][NextRest]_vars

(***************************************************************************)
(* Properties of the WebSocket handler.                                    *)
(***************************************************************************)
\* socket s resumes from the user lookup in this step
Resumes(s) == pc[s] = "lookup" /\ pc'[s] # "lookup"

HasRow(s) == UserById(users, sess[s].user_id) # {}

Registered(reg, s) == s \in DictValues(reg)

\* C1: when a user whose row exists sends a frame with a text field, every
\* registered connection receives exactly one "message" frame from the sender
\* with the plaintext, and exactly one row with ciphertext is persisted.
\* Stated for the step in which the handler resumes from the lookup: the row
\* is there, and a frame delivered in that step is the "message" frame.
C1_MessageStoredAndBroadcast ==
    [][\A s \in Socks :
         (Resumes(s) /\ HasRow(s) /\ ~cur[s].store_raises /\ tr[s] = "open")
         => /\ Len(messages') = Len(messages) + 1
            /\ messages'[Len(messages')].text = cur[s].encrypted_text
            /\ messages'[Len(messages')].text.fernet
            /\ messages'[Len(messages')].sender_id = sess[s].user_id
            /\ \A r \in Socks :
                  inbox'[r] # inbox[r]
                  => /\ Len(inbox'[r]) = Len(inbox[r]) + 1
                     /\ inbox'[r][Len(inbox'[r])].type = "message"
                     /\ inbox'[r][Len(inbox'[r])].from = sess[s].user_id
                     /\ inbox'[r][Len(inbox'[r])].text = cur[s].text]_vars

\* the frame of a user with a row was answered with "Error saving message"
C1_Reached ==
    \E s \in Socks :
        /\ UserById(users, sess[s].user_id) # {}
        /\ pc[s] = "recv"
        /\ inbox[s] # <<>>
        /\ inbox[s][Len(inbox[s])] = ErrSaving
        /\ Len(messages) = 2

\* C2: whenever the transport of a connected user closes, also where the
\* same user id connected more than once, the registry's count decreases by
\* exactly one and every connection that remains registered receives exactly
\* one "user_disconnected" frame with that user's id.  Stated for the step in
\* which the handler observes the close.
C2_CloseDecrementsCount ==
    [][\A s \in Socks :
         (pc[s] = "recv" /\ tr[s] = "closed" /\ pc'[s] # "recv")
         => /\ DictLen(registry') = DictLen(registry) - 1
            /\ \A r \in Socks :
                  inbox'[r] # inbox[r]
                  => inbox'[r] = Append(inbox[r],
                                        DisconnectFrame(sess[s].user_id,
                                                        sess[s].username))]_vars

\* two connections of one user id have both closed
C2_Reached ==
    \E s \in Socks, r \in Socks :
        /\ s # r
        /\ sess[s].user_id = sess[r].user_id
        /\ pc[s] = "done" /\ pc[r] = "done"

\* a token that fails verification or whose type is not "access"
BadToken(token) ==
    \/ token.form # "jwt"
    \/ token.sig # "ok"
    \/ token.exp # "live"
    \/ token.payload.type # "access"

\* C3: a WebSocket connection whose token fails verification, or whose
\* payload type is not "access", is closed with the policy-violation code,
\* the registry never holds an entry for that socket, and the attempt leaves
\* the registry unchanged.
C3_BadTokenNeverRegistered ==
    /\ [](\A s \in Socks :
            (pc[s] # "new" /\ BadToken(sess[s].token))
            => /\ pc[s] = "rejected"
               /\ tr[s] = "closed"
               /\ closeCode[s] = WS_1008_POLICY_VIOLATION
               /\ ~Registered(registry, s))
    /\ [][\A s \in Socks :
            (pc[s] = "new" /\ pc'[s] # "new" /\ BadToken(sess'[s].token))
            => registry' = registry]_vars

\* a connection with a verifiable token without type "access" was rejected
\* while another connection is registered
C3_Reached ==
    \E s \in Socks, r \in Socks :
        /\ pc[s] = "rejected"
        /\ ~verify_token(sess[s].token).none
        /\ closeCode[s] = WS_1008_POLICY_VIOLATION
        /\ Registered(registry, r)

\* C9: a frame from a connection whose user has no row is answered to the
\* sender alone with the error frame "User not found"; no row is persisted,
\* no other connection receives a frame, and the connection stays open and
\* registered, back at reading its next frame.
C9_UserNotFoundToSenderOnly ==
    [][\A s \in Socks :
         (Resumes(s) /\ ~HasRow(s) /\ ~cur[s].store_raises /\ tr[s] = "open")
         => /\ inbox' = [inbox EXCEPT ![s] = Append(@, ErrUserNotFound)]
            /\ messages' = messages
            /\ registry' = registry
            /\ pc'[s] = "recv"
            /\ tr'[s] = "open"]_vars

\* a connection was told "User not found" twice, for two frames, beside
\* another registered connection that received nothing
C9_Reached ==
    \E s \in Socks, r \in Socks :
        /\ r # s
        /\ inbox[s] = <<ErrUserNotFound, ErrUserNotFound>>
        /\ pc[s] = "recv" /\ tr[s] = "open" /\ Registered(registry, s)
        /\ Registered(registry, r) /\ tr[r] = "open" /\ inbox[r] = <<>>
        /\ messages = <<>>

\* C10: when persisting the message fails, the sender alone receives the
\* error frame "Error saving message", no other connection receives a frame,
\* the connection is neither closed nor deregistered, and the handler is
\* back at reading the next frame.
C10_SavingErrorToSenderOnly ==
    [][\A s \in Socks :
         (Resumes(s) /\ tr[s] = "open"
            /\ (cur[s].store_raises \/ (HasRow(s) /\ UtcNowRaises)))
         => /\ inbox' = [inbox EXCEPT ![s] = Append(@, ErrSaving)]
            /\ messages' = messages
            /\ registry' = registry
            /\ pc'[s] = "recv"
            /\ tr'[s] = "open"]_vars

\* a connection was told "Error saving message" for each of two frames,
\* beside another registered connection that received nothing
C10_Reached ==
    \E s \in Socks, r \in Socks :
        /\ r # s
        /\ inbox[s] = <<ErrSaving, ErrSaving>>
        /\ pc[s] = "recv" /\ tr[s] = "open" /\ Registered(registry, s)
        /\ Registered(registry, r) /\ tr[r] = "open" /\ inbox[r] = <<>>

(***************************************************************************)
(* Properties of the REST endpoints.  A step that leaves every handler's   *)
(* position alone and records a request is the handling of that request.   *)
(***************************************************************************)
ProtectedOps == {"me", "messages", "user", "profile", "connections"}

Handled(op) == pc' = pc /\ nframes' = nframes /\ http'.op = op

BadCredentials(credentials) ==
    \/ ~credentials.present
    \/ credentials.scheme # "Bearer"
    \/ BadToken(credentials.token)

\* C4: a request to a protected endpoint that carries no bearer token, a
\* malformed or expired token, or a token whose type is not "access", is
\* answered with 401 and leaves the users table, the messages table and the
\* connection registry unchanged.
C4_Always401 ==
    /\ [](\A op \in ProtectedOps :
            (http.op = op /\ BadCredentials(http.req.credentials))
            => http.resp.status = 401)
    /\ [][\A op \in ProtectedOps :
            (Handled(op) /\ BadCredentials(http'.req.credentials))
            => UNCHANGED <<users, messages, registry>>]_vars

\* a request to a protected endpoint without an Authorization header was
\* answered 403 "Not authenticated" while a user has a row and a connection
\* is registered
C4_Reached ==
    /\ http.op \in ProtectedOps
    /\ http.req.credentials = NoHeader
    /\ http.resp = Response(403, "Not authenticated", <<>>)
    /\ users # {}
    /\ DictLen(registry) > 0

\* a registration body with a username of three or more characters and a
\* password of six or more, and no email
ValidRegistration(data) ==
    /\ data.json = "object"
    /\ data.username.t = "str" /\ Len(Strip(data.username.v)) >= MinUsernameLen
    /\ data.password.t = "str" /\ Len(Strip(data.password.v)) >= MinPasswordLen
    /\ data.email = Absent

\* C5: a registration with a valid username and password returns 201 and
\* creates exactly one User row; a later registration with the same username
\* returns 400 "User already exists" and creates no second row.
C5_RegisterThenConflict ==
    [][(Handled("register") /\ ValidRegistration(http'.req.data)
          /\ dbAvailable /\ ~http'.req.store_raises)
       => IF UserByName(users, Strip(http'.req.data.username.v)) = {}
          THEN /\ http'.resp.status = 201
               /\ Cardinality(users') = Cardinality(users) + 1
               /\ Cardinality(UserByName(users', Strip(http'.req.data.username.v))) = 1
          ELSE /\ http'.resp = R400("User already exists")
               /\ users' = users]_vars

\* a valid registration of a new username was answered with 500
C5_Reached ==
    /\ http.op = "register"
    /\ ValidRegistration(http.req.data)
    /\ dbAvailable /\ ~http.req.store_raises
    /\ UserByName(users, Strip(http.req.data.username.v)) = {}
    /\ http.resp = R500

\* the field is missing or a blank string
MissingOrBlank(field) == field.t = "absent" \/ (field.t = "str" /\ Strip(field.v) = <<>>)

\* the field is a string of fewer than n characters
ShorterThan(field, n) == field.t = "str" /\ Len(Strip(field.v)) < n

\* username or password missing or blank, or too short
RejectedByValidation(data) ==
    /\ data.json = "object"
    /\ \/ MissingOrBlank(data.username)
       \/ MissingOrBlank(data.password)
       \/ ShorterThan(data.username, MinUsernameLen)
       \/ ShorterThan(data.password, MinPasswordLen)

\* C6 as stated: every such registration is answered with 400.
C6_Always400 ==
    (http.op = "register" /\ RejectedByValidation(http.req.data))
    => http.resp.status = 400

\* C6: a registration whose username or password is missing or blank, whose
\* username has fewer than 3 characters or whose password has fewer than 6
\* creates no User row, and is answered with 400 when each of username,
\* password and email is a string or left out.
C6_InvalidRegistrationRejected ==
    /\ []((http.op = "register" /\ RejectedByValidation(http.req.data)
             /\ \A k \in {"username", "password", "email"} :
                   http.req.data[k].t \in {"str", "absent"})
          => /\ http.resp.status = 400
             /\ http.resp.detail \in
                  {"Username and password are required",
                   "Username must be at least 3 characters long",
                   "Password must be at least 6 characters long"})
    /\ [][(Handled("register") /\ RejectedByValidation(http'.req.data))
          => users' = users]_vars

\* a registration with a password of five characters was answered with 400
C6_Reached ==
    /\ http.op = "register"
    /\ http.req.data.username = Str(S_carol)
    /\ http.req.data.password = Str(<<"1", "2", "3", "4", "5">>)
    /\ http.req.data.email.t = "str"
    /\ dbAvailable /\ ~http.req.store_raises
    /\ http.resp = R400("Password must be at least 6 characters long")

\* a login body with a username and a password that are not blank
LoginAttempt(data) ==
    /\ data.json = "object"
    /\ data.username.t = "str" /\ Strip(data.username.v) # <<>>
    /\ data.password.t = "str" /\ Strip(data.password.v) # <<>>

\* the stored hash of the user was made from another password
WrongPassword(us, data) ==
    \E u \in us : /\ u.username = Strip(data.username.v)
                  /\ u.password_hash.of # Strip(data.password.v)

UnknownUser(us, data) == \A u \in us : u.username # Strip(data.username.v)

HistoryStore == [db |-> TRUE, users |-> {Row_alice, Row_bob}, messages |-> <<>>]

InitHistory == InitOn({HistoryStore})

HistoryFrames == {f \in InFrames : FrameParses(f) /\ f.text.t = "str"}

NextHistory ==
    \/ \E s \in Socks, token \in AccessTokens : Connect(s, token)
    \/ \E s \in Socks, f \in HistoryFrames : ReceiveFrame(s, f, FALSE)
    \/ \E s \in Socks : LookupResume(s)
    \/ \E token \in AccessTokens, limit \in Limits :
          GetMessages(Bearer(token), limit, FALSE)

SpecHistory == InitHistory /\ [][NextHistory]_vars

\* the frames whose handling has run to its end
FramesHandled == nframes - Cardinality({s \in Socks : pc[s] = "lookup"})

\* C8: after messages were persisted through the chat protocol, GET
\* /api/messages with limit n returns the n most recent of them (all when
\* fewer exist) in ascending timestamp order, each with the plaintext sent.
C8_HistoryReturnsSentMessages ==
    [][Handled("messages")
       => LET body == http'.resp.body
              n == IF http'.req.limit < FramesHandled
                   THEN http'.req.limit ELSE FramesHandled
          IN  /\ http'.resp.status = 200
              /\ Len(body) = n
              /\ \A i \in 1..Len(body) : body[i].text = "hi"
              /\ \A i \in 1..Len(body), j \in 1..Len(body) :
                    i < j => body[i].timestamp.iso < body[j].timestamp.iso]_vars

\* two frames were sent and answered, and the history read after them is empty
C8_Reached ==
    /\ nframes = MaxFrames
    /\ FramesHandled = MaxFrames
    /\ http.op = "messages"
    /\ http.req.limit = DefaultLimit
    /\ http.resp.body = <<>>
    /\ \E s \in Socks : inbox[s] # <<>>

(***************************************************************************)
(* Failures while a frame is handled.                                      *)
(***************************************************************************)
\* the handler of socket s reads a frame in this step
Reads(s) == pc[s] = "recv" /\ tr[s] = "open" /\ nframes' = nframes + 1 /\ pc'[s] # pc[s]

\* C11: once a connection is authenticated, a failure while one inbound
\* frame is handled (a frame that is not valid JSON or not an object, a
\* failure outside the database block) gives the sender an in-band error
\* frame and leaves the connection open and registered; the handler ends
\* only when the transport closes.
C11_FrameFailureKeepsConnection ==
    [][\A s \in Socks :
         Reads(s)
         => /\ pc'[s] # "crashed"
            /\ tr'[s] = "open"
            /\ (pc'[s] = "recv" => inbox'[s] # inbox[s])]_vars

\* a handler has ended on a frame while its client's transport was open: it
\* sent no error frame and its registry entry is still there
C11_Reached ==
    \E s \in Socks :
        /\ pc[s] = "crashed"
        /\ inbox[s] = <<>>
        /\ DictHas(registry, sess[s].user_id)
        /\ Registered(registry, s)

(***************************************************************************)
(* Properties of the user endpoints.                                       *)
(***************************************************************************)
GoodCredentials(credentials) == ~BadCredentials(credentials)

\* C12: an authenticated GET /api/user/{user_id} for an id without a User
\* row is answered with 404, and for an id with a row returns the row's id,
\* username, decrypted email, created_at and last_seen.
C12_UserInfoOr404 ==
    [][(Handled("user") /\ GoodCredentials(http'.req.credentials)
          /\ dbAvailable /\ ~http'.req.store_raises)
       => IF UserById(users, http'.req.user_id) = {}
          THEN http'.resp.status = 404
          ELSE /\ http'.resp.status = 200
               /\ \E u \in users :
                     /\ u.id = http'.req.user_id
                     /\ http'.resp.body.id = u.id
                     /\ http'.resp.body.username = u.username]_vars

\* an authenticated request for an id without a row was answered with 500
C12_Reached ==
    /\ http.op = "user"
    /\ GoodCredentials(http.req.credentials)
    /\ dbAvailable /\ ~http.req.store_raises
    /\ users # {}
    /\ UserById(users, http.req.user_id) = {}
    /\ http.resp = R500

\* the stripped new username of a profile update whose fields are strings
NewUsername(data) == Strip(Get(data.username).v)

\* C13: an authenticated profile update whose new username is missing,
\* shorter than 3 characters or taken by another user is answered with 400,
\* one by a caller whose own row no longer exists with 404; every User row
\* is left unchanged in all these cases.
C13_ProfileUpdateRejections ==
    [][(Handled("profile") /\ GoodCredentials(http'.req.credentials)
          /\ FieldsAreStrings(http'.req.data, {"username", "email"}))
       => LET data == http'.req.data
              caller == IntOfStr(http'.req.credentials.token.payload.sub)
              invalid == Len(NewUsername(data)) < MinUsernameLen
              taken == \E u \in users : u.username = NewUsername(data) /\ u.id # caller
              gone == UserById(users, caller) = {}
              reachable == dbAvailable /\ ~http'.req.store_raises
          IN  /\ invalid => http'.resp.status = 400 /\ users' = users
              /\ (~invalid /\ reachable /\ taken)
                 => http'.resp.status = 400 /\ users' = users
              /\ (~invalid /\ reachable /\ ~taken /\ gone)
                 => http'.resp.status = 404 /\ users' = users]_vars

\* a profile update to a username of two characters was answered with 500
C13_Reached ==
    /\ http.op = "profile"
    /\ GoodCredentials(http.req.credentials)
    /\ http.req.data.username = Str(<<"a", "b">>)
    /\ http.req.data.email = Absent
    /\ Row_alice \in users
    /\ http.resp = R500

(***************************************************************************)
(* A users table that has an email column holding ciphertext, as the       *)
(* registration handler expects it, with one registered user.              *)
(***************************************************************************)
S_email == <<"a", "@", "x">>

Row_alice_with_email ==
    [id |-> 1, username |-> S_alice, password_hash |-> get_password_hash(S_secret1, 1),
     email |-> encrypt_data(S_email, 1), created_at |-> 1, last_seen |-> 1]

EmailStore == [db |-> TRUE, users |-> {Row_alice_with_email}, messages |-> <<>>]

InitEmail == InitOn({EmailStore})

SpecEmail == InitEmail /\ [][NextRest]_vars

\* a stored email decrypts to the email of the request
EmailTaken(us, data) ==
    /\ data.email.t = "str"
    /\ Strip(data.email.v) # <<>>
    /\ \E u \in us : /\ "email" \in DOMAIN u
                     /\ ~decrypt_data(u.email).raised
                     /\ decrypt_data(u.email).value = Lower(Strip(data.email.v))

\* C14: a registration that supplies the email of an already registered user
\* is rejected with 400 "User already exists" and creates no User row,
\* although emails are stored only as ciphertext.
C14_DuplicateEmailRejected ==
    [][(Handled("register") /\ FieldsAreStrings(http'.req.data, {"username", "password"})
          /\ RegistrationError(Strip(Get(http'.req.data.username).v),
                               Strip(Get(http'.req.data.password).v)) = NoneValue
          /\ EmailTaken(users, http'.req.data)
          /\ dbAvailable /\ ~http'.req.store_raises)
       => /\ http'.resp = R400("User already exists")
          /\ users' = users]_vars

\* a registration with a new username and the stored email of another user
\* was answered with 500
C14_Reached ==
    /\ http.op = "register"
    /\ http.req.data.username = Str(S_carol)
    /\ http.req.data.password = Str(S_secret1)
    /\ EmailTaken(users, http.req.data)
    /\ ~http.req.store_raises
    /\ http.resp = R500
    /\ users = {Row_alice_with_email}

(***************************************************************************)
(* Encryption at rest.                                                     *)
(***************************************************************************)
\* a stored value made by the encryption service, from which the plaintext
\* is recovered only by decryption
Ciphertext(stored, plaintext) ==
    /\ stored.fernet
    /\ ~decrypt_data(stored).raised
    /\ decrypt_data(stored).value = plaintext

\* Connections that send frames with a text beside registrations that carry
\* an email, over a reachable store that holds two users and no message.
AtRestBodies ==
    {Body(Str(S_carol), Str(S_secret1), e) : e \in {Absent, Str(<<"A", "@", "x">>)}}

InitAtRest == InitOn({HistoryStore})

NextAtRest ==
    \/ \E s \in Socks, token \in AccessTokens : Connect(s, token)
    \/ \E s \in Socks, f \in HistoryFrames : ReceiveFrame(s, f, FALSE)
    \/ \E s \in Socks : LookupResume(s)
    \/ \E data \in AtRestBodies : Register(data, FALSE)

SpecAtRest == InitAtRest /\ [][NextAtRest]_vars

\* a registration of a new username with an email, over a reachable store
RegistersWithEmail ==
    /\ Handled("register")
    /\ dbAvailable
    /\ http'.req.data.email.t = "str"
    /\ UserByName(users, Strip(http'.req.data.username.v)) = {}

IsEntryOf(reg, user_id, s) ==
    \E i \in LiveIdx(reg) : reg[i].key = user_id /\ reg[i].val = s

\* the handler of socket s is between reading a frame and the end of its
\* handling
Busy(s) == pc[s] \in {"lookup", "committed", "bcast"} /\ (pc[s] = "bcast" => bc[s].after # "disc")

\* the handling of the frame that the handler of s holds ends in this step:
\* the handler is back at receive_text
FrameDone(s) == Busy(s) /\ pc'[s] = "recv"

\* the text of the frame the handler of s is busy with
TextInHand(s) == IF pc[s] = "lookup" THEN cur[s].text ELSE bc[s].frame.text

\* connection r holds a "message" frame from the user of s with this text
HoldsMessage(box, r, s, text) ==
    \E i \in 1..Len(box[r]) :
        /\ box[r][i].type = "message"
        /\ box[r][i].from = sess[s].user_id
        /\ box[r][i].text = text

RightPassword(us, data) ==
    \E u \in us : /\ u.username = Strip(data.username.v)
                  /\ u.password_hash.of = Strip(data.password.v)

LastSeen(us, username) == {u.last_seen : u \in UserByName(us, username)}

\* C17: every successful login, every message sent over an authenticated
\* WebSocket connection and every successful profile update sets the acting
\* user's last_seen to the time of the operation; no other operation changes
\* last_seen.  Stated for the REST endpoints: a login with a user's own
\* password against a reachable store is answered 200 and leaves that
\* user's last_seen at the time of the request, and a request that is no
\* login and no profile update leaves every row as it was.
C17_LastSeenFollowsActivity ==
    [][/\ (Handled("login") /\ LoginAttempt(http'.req.data)
             /\ RightPassword(users, http'.req.data)
             /\ dbAvailable /\ ~http'.req.store_raises)
          => /\ http'.resp.status = 200
             /\ LastSeen(users', Strip(http'.req.data.username.v)) = {now}
       /\ (http'.op \notin {"login", "profile"}) => users' = users]_vars

\* a login with alice's own password was answered with 500 and her last_seen
\* is what it was when the process started
C17_Reached ==
    /\ http.op = "login"
    /\ http.req.data.username = Str(S_alice)
    /\ http.req.data.password = Str(S_secret1)
    /\ ~http.req.store_raises
    /\ http.resp = R500
    /\ LastSeen(users, S_alice) = {Row_alice.last_seen}

(***************************************************************************)
(* Broadcasts and the registry.                                            *)
(***************************************************************************)
\* the handler of socket s stays suspended in its broadcast over this step
StaysInBroadcast(s) == pc[s] = "bcast" /\ pc'[s] = "bcast" /\ bc'[s] = bc[s]

\* C18: no interleaving of connection handlers lets a connect or disconnect
\* of one task change the registry while another task's broadcast is
\* suspended part-way through iterating it; every broadcast runs to its end
\* over an unchanged set of registered connections.
C18_RegistryStableDuringBroadcast ==
    [][(\E s \in Socks : StaysInBroadcast(s)) => registry' = registry]_vars

\* a broadcast is suspended over a registry whose size is no longer the one
\* its iterator was made for: its next step raises RuntimeError
C18_Reached ==
    \E s \in Socks :
        /\ pc[s] = "bcast"
        /\ bc[s].it.used # DictLen(registry)
        /\ IterNext(bc[s].it, registry).kind = "error"

(***************************************************************************)
(* Requests in flight.  A profile update is suspended twice in the store,  *)
(* in the lookup of the new username among the other users and in the      *)
(* lookup of the caller's own row, before it writes; other requests run    *)
(* in between.  A registration is not suspended between its lookup and its *)
(* answer in this build: building the lookup raises.  Each of two clients, *)
(* holding the token of user 1 and of user 2, has one request at a time;   *)
(* http.req[c] is where the request of client c stands and http.resp[c]    *)
(* the last answer client c was given.                                     *)
(***************************************************************************)
Clients == UserIds

IdleRequest == [stage |-> "idle", username |-> <<>>, store_raises |-> FALSE]

InFlight(c) == IF http.op = "race" THEN http.req[c] ELSE IdleRequest

Answered(c) == IF http.op = "race" THEN http.resp[c] ELSE <<>>

RaceStep(c, request, resp) ==
    http' = [op |-> "race",
             req |-> [d \in Clients |-> IF d = c THEN request ELSE InFlight(d)],
             resp |-> [d \in Clients |-> IF d = c THEN resp ELSE Answered(d)]]

RaceProfileBodies ==
    {NotJson} \cup {Body(Str(u), Absent, Absent) : u \in {<<"a", "b">>, S_alice, S_carol}}

RaceRegisterBodies == {Body(Str(u), Str(S_secret1), Absent) : u \in {S_alice, S_carol}}

\* lines 503-518: the body is read and validated, the first lookup is sent
RaceProfileBegin(c, data, store_raises) ==
    /\ InFlight(c).stage = "idle"
    /\ LET ok == /\ FieldsAreStrings(data, {"username", "email"})
                 /\ Len(Strip(Get(data.username).v)) >= MinUsernameLen
                 /\ dbAvailable
           name == IF FieldsAreStrings(data, {"username", "email"})
                   THEN Strip(Get(data.username).v) ELSE <<>>
       IN  IF ok
           THEN RaceStep(c, [stage |-> "taken_lookup", username |-> name,
                             store_raises |-> store_raises], Answered(c))
           ELSE RaceStep(c, [IdleRequest EXCEPT !.username = name], R500)
    /\ UNCHANGED <<storeVars, wsVars>>

\* lines 518-525: the first lookup returns, the second is sent
RaceProfileTaken(c) ==
    /\ InFlight(c).stage = "taken_lookup"
    /\ LET r == InFlight(c)
           taken == {u \in users : u.username = r.username /\ u.id # c}
       IN  IF r.store_raises \/ taken # {}
           THEN RaceStep(c, [r EXCEPT !.stage = "idle"], R500)
           ELSE RaceStep(c, [r EXCEPT !.stage = "own_lookup"], Answered(c))
    /\ UNCHANGED <<storeVars, wsVars>>

\* lines 525-547: the second lookup returns, the row is written
RaceProfileFinish(c) ==
    /\ InFlight(c).stage = "own_lookup"
    /\ LET r == InFlight(c)
           found == UserById(users, c)
           w == IF found = {}
                THEN Result(R500, users, now)
                ELSE ProfileCommit(users, CHOOSE u \in found : TRUE, r.username, now)
       IN  /\ RaceStep(c, [r EXCEPT !.stage = "idle"], w.resp)
           /\ users' = w.users
           /\ now' = w.now
    /\ UNCHANGED <<dbAvailable, messages, wsVars>>

\* lines 191-267: a registration, from its body to its answer
RaceRegister(c, data, store_raises) ==
    /\ InFlight(c).stage = "idle"
    /\ LET w == register_user(data, store_raises, users, now)
       IN  /\ RaceStep(c, [IdleRequest EXCEPT !.username = Strip(data.username.v)], w.resp)
           /\ users' = w.users
           /\ now' = w.now
    /\ UNCHANGED <<dbAvailable, messages, wsVars>>

InitRace == InitOn({HistoryStore, [HistoryStore EXCEPT !.users = {Row_alice}]})

NextRace ==
    \/ \E c \in Clients, data \in RaceProfileBodies, store_raises \in BOOLEAN :
          RaceProfileBegin(c, data, store_raises)
    \/ \E c \in Clients : RaceProfileTaken(c)
    \/ \E c \in Clients : RaceProfileFinish(c)
    \/ \E c \in Clients, data \in RaceRegisterBodies, store_raises \in BOOLEAN :
          RaceRegister(c, data, store_raises)

SpecRace == InitRace /\ [][NextRace]_vars

\* the profile update of client c, past both lookups, is answered in this
\* step
ProfileAnswered(c) ==
    /\ InFlight(c).stage = "own_lookup"
    /\ http'.req[c].stage = "idle"

WideSockets == MaxSockets + 1

WideTokens == {create_access_token(s, S_carol) : s \in 1..WideSockets}

InitWide == InitWith({HistoryStore}, WideSockets)

NextWide ==
    \/ \E s \in Socks, token \in WideTokens : Connect(s, token)
    \/ \E s \in Socks : PeerClose(s)
    \/ \E s \in Socks : ObserveClose(s)
    \/ \E s \in Socks : BroadcastStep(s)

SpecWide == InitWide /\ [][NextWide]_vars

(***************************************************************************)
(* The ConnectionManager taken by itself: beside the connections that the  *)
(* WebSocket endpoint registers, a caller outside the endpoints calls the  *)
(* manager's public method send_personal_message.  The endpoints of this   *)
(* repository never do, so the specifications of the program above have    *)
(* no such step.                                                           *)
(***************************************************************************)
PersonalMessages == {ErrorFrame("note")}

\* lines 115-117: one call of manager.send_personal_message(message, user_id)
SendPersonalMessage(message, user_id) ==
    /\ \A s \in Socks : Len(inbox[s]) < MaxFrames
    /\ \E o \in send_personal_message(St, message, user_id) : inbox' = o.inbox
    /\ UNCHANGED <<storeVars, registry, pc, tr, closeCode, sess, cur, bc, nframes, http>>

InitManager == InitOn({HistoryStore})

NextManager ==
    \/ \E s \in Socks, token \in AccessTokens : Connect(s, token)
    \/ \E s \in Socks : PeerClose(s)
    \/ \E s \in Socks : ObserveClose(s)
    \/ \E s \in Socks : BroadcastStep(s)
    \/ \E message \in PersonalMessages, user_id \in UserIds \cup {3} :
          SendPersonalMessage(message, user_id)

SpecManager == InitManager /\ [][NextManager]_vars

\* the broadcast the handler of socket s makes or resumes in this step: its
\* iterator, the registry it walks and its frame
BroadcastOf(s) ==
    IF pc[s] = "bcast"
    THEN [it |-> bc[s].it, reg |-> registry, frame |-> bc[s].frame]
    ELSE [it |-> NewIter(disconnect(registry, sess[s].user_id)),
          reg |-> disconnect(registry, sess[s].user_id),
          frame |-> DisconnectFrame(sess[s].user_id, sess[s].username)]

\* in this step the broadcast of s takes a connection from the registry and
\* the send to it raises
SendFails(s) ==
    /\ pc[s] = "bcast" \/ (pc[s] = "recv" /\ tr[s] = "closed")
    /\ IterNext(BroadcastOf(s).it, BroadcastOf(s).reg).kind = "value"
    /\ pc'[s] = "crashed"

Holds(box, frame) == \E i \in 1..Len(box) : box[i] = frame

\* C20: if sending a broadcast frame to one registered connection fails, the
\* frame is still delivered to every other registered connection, and the
\* failure ends no other connection's handler.
C20_BroadcastSurvivesSendFailure ==
    [][\A s \in Socks :
         SendFails(s)
         => /\ \A r \in DictValues(BroadcastOf(s).reg) :
                  (r # IterNext(BroadcastOf(s).it, BroadcastOf(s).reg).val
                     /\ tr[r] = "open")
                  => Holds(inbox'[r], BroadcastOf(s).frame)
            /\ \A r \in Socks : r # s => pc'[r] = pc[r]]_vars

\* a broadcast of "user_disconnected" has ended in a failed send while a
\* registered connection with an open transport has received nothing
C20_Reached ==
    \E s \in Socks, r \in Socks :
        /\ pc[s] = "crashed"
        /\ nframes = 0
        /\ pc[r] = "recv" /\ tr[r] = "open"
        /\ Registered(registry, r)
        /\ inbox[r] = <<>>

(***************************************************************************)
(* The registry and the handlers that are running.                         *)
(***************************************************************************)
\* the handler of socket s is past manager.connect and has not ended
Running(s) == pc[s] \in {"recv", "lookup", "committed", "bcast"}

\* C21: in every reachable state, every connection that was authenticated
\* and accepted and whose transport has not closed is the registry's entry
\* for its user id; in particular, where the same user id connected a second
\* time and the first socket then closed, the second socket is registered.
C21_OpenConnectionIsRegistered ==
    \A s \in Socks :
        (Running(s) /\ tr[s] = "open") => IsEntryOf(registry, sess[s].user_id, s)

\* a user id connected twice, the handler of the first socket has ended on
\* its close, and the second socket, open and reading, is in no entry
C21_Reached ==
    \E s \in Socks, r \in Socks :
        /\ s < r
        /\ sess[s].user_id = sess[r].user_id
        /\ pc[s] = "done"
        /\ pc[r] = "recv" /\ tr[r] = "open"
        /\ ~Registered(registry, r)
        /\ ~DictHas(registry, sess[r].user_id)

\* the handler of socket s is in its receive loop: suspended in
\* receive_text, in the user lookup, or in the broadcast of a frame it read
InReceiveLoop(s) == Running(s) /\ (pc[s] = "bcast" => bc[s].after # "disc")

\* C22: in every reachable state, every socket held in the registry belongs
\* to a handler that is still running its receive loop: once a handler has
\* ended for any reason (peer close, or an exception raised while handling a
\* frame or while broadcasting), its socket is no longer in the registry.
C22_RegisteredHandlersRun ==
    \A s \in Socks : Registered(registry, s) => InReceiveLoop(s)

\* a handler has ended on an exception, the server has closed its socket,
\* and the socket is still the entry of its user id while another
\* connection's handler is reading
C22_Reached ==
    \E s \in Socks, r \in Socks :
        /\ pc[s] = "crashed" /\ tr[s] = "closed"
        /\ IsEntryOf(registry, sess[s].user_id, s)
        /\ pc[r] = "recv" /\ tr[r] = "open"
        /\ IsEntryOf(registry, sess[r].user_id, r)

(***************************************************************************)
(* The error frame and the committed row.                                  *)
(***************************************************************************)
\* the sender s is sent "Error saving message" in this step
GetsSavingError(s) == inbox'[s] = Append(inbox[s], ErrSaving)

\* the handler of s commits the Message row of its frame in this step
CommitsRow(s) == Resumes(s) /\ Len(messages') = Len(messages) + 1

\* the broadcast that followed the commit of a row by s ends in this step
CommittedFrameDone(s) ==
    /\ pc[s] \in {"committed", "bcast"} /\ bc[s].after = "msg"
    /\ pc'[s] \notin {"committed", "bcast"}

\* the sender s holds the "message" frame of the row with this id
HasMessageFrame(box, s, message_id) ==
    \E i \in 1..Len(box[s]) :
        /\ box[s][i].type = "message"
        /\ box[s][i].from = sess[s].user_id
        /\ box[s][i].message_id = message_id

====
